---- MODULE Spec2Model ----
(***************************************************************************)
(* Model of src/src/main.cpp: a PortAudio capture callback (producer) that *)
(* pushes fixed-size blocks into the lock-free ring spscRing, and the main *)
(* thread (consumer) that pops them, appends the normalised samples to the *)
(* bounded deque g_fifo and leaves its loop on a session timer.            *)
(*                                                                         *)
(* push and pop are split at every access to shared memory: the two index  *)
(* loads, the test, the slot copy and the index store are separate steps   *)
(* of the two threads, interleaved freely.  The release store / acquire    *)
(* load pairs of the code make each slot copy visible before the index     *)
(* that publishes it, so the steps are interleaved sequentially            *)
(* consistently.                                                           *)
(***************************************************************************)
EXTENDS Integers, Sequences, FiniteSets, TLC

\* ------------------------------------------------------------------------
\* Sizes.  The program's sizes (512 frames, 64 slots, 44100 Hz) are scaled
\* down; every formula below is stated in terms of the names.
\* ------------------------------------------------------------------------
FRAMES_PER_BLOCK == 4

CAP == 2

\* the sample rate hard-coded in FIFO_MAX (44100 in the program)
NominalRate == 2

\* the number of seconds hard-coded in FIFO_MAX
MaxSeconds == 3

FIFO_MAX == NominalRate * MaxSeconds

\* number of periods the backend delivers in a run
MaxPeriods == 4

\* default sample rates a device descriptor may report
SampleRates == {NominalRate - 1, NominalRate, NominalRate + 1}

\* 1.0/32768.0: the divisor of the normalisation
ScaleDen == 32768

\* input == nullptr: the pointer to no samples (a delivered buffer always
\* holds at least one)
NULL == <<>>

\* frame counts the backend may deliver: the configured one and a short one
FrameCounts == {FRAMES_PER_BLOCK - 1, FRAMES_PER_BLOCK}

VARIABLES
    buf, w, r, dropped,              \* spscRing g_rb
    ppc, b, pwi, pri, pushRet,       \* paCallback / push: position and locals
    cpc, blk, cri, cwi, popRet,      \* main / pop: position and locals
    popped, g_fifo, fs, rms,         \* main: popped, the deque, the rate, rms
    elapsed, streamActive, reported, \* session clock, stream, shutdown report
    periods, offered, accepted, delivered, appended,  \* history of the run
    callers      \* positions and locals of additional callers of push and pop

ring == <<buf, w, r, dropped>>
prod == <<ppc, b, pwi, pri, pushRet>>
cons == <<cpc, blk, cri, cwi, popRet, popped, g_fifo, reported>>
hist == <<periods, offered, accepted, delivered, appended>>
vars == <<ring, prod, cons, hist, fs, callers, rms, elapsed, streamActive>>

\* ------------------------------------------------------------------------
\* Values
\* ------------------------------------------------------------------------
Frames == 1..FRAMES_PER_BLOCK

\* Block{} : value-initialised std::array, all samples zero
ZeroBlock == [i \in Frames |-> 0]

\* the samples the backend delivers in period k (1-based) with polarity s:
\* distinct in every position of every period, so that a reordered,
\* repeated or truncated block is told apart
PeriodSamples(k, s, n) == [i \in 1..n |-> s * ((k - 1) * FRAMES_PER_BLOCK + i)]

Min(x, y) == IF x <= y THEN x ELSE y

IsPrefix(s, t) == Len(s) <= Len(t) /\ \A i \in 1..Len(s) : s[i] = t[i]

LastN(s, n) == SubSeq(s, Len(s) - n + 1, Len(s))

\* ------------------------------------------------------------------------
\* Pure parts of the code
\* ------------------------------------------------------------------------
\* variant: the fullness test off by one (> for >=)
IsFullOffByOne(wi, ri) == IF wi >= ri THEN wi - ri > CAP ELSE TRUE

\* variant: the fullness test one slot early
IsFullEarly(wi, ri) == IF wi >= ri THEN wi - ri >= CAP - 1 ELSE TRUE

\* wi - ri >= CAP on size_t: a difference below zero wraps to a huge value
IsFull(wi, ri) == IF wi >= ri THEN wi - ri >= CAP ELSE TRUE

\* variant: the emptiness test as an ordering test
IsEmptyBelow(wi, ri) == wi < ri

\* wi == ri
IsEmpty(wi, ri) == wi = ri

\* i % CAP
Slot(i) == i % CAP

\* std::memcpy(b.data(), input, FRAMES_PER_BLOCK * sizeof(int16_t))
Memcpy(src) == [i \in Frames |-> src[i]]

\* variant: a copy one sample short, the last sample left zero
CopyBlockShort(src) ==
    [i \in Frames |-> IF i < FRAMES_PER_BLOCK THEN src[i] ELSE 0]

\* Block assignment (buf[...] = b, out = buf[...]): all samples, in place
CopyBlock(src) == [i \in Frames |-> src[i]]

\* static_cast<float>(s) * fscale: s / 32768, exact in a float for an int16;
\* kept as the pair <<numerator, denominator>>
Normalize(s) == <<s, ScaleDen>>

\* for (auto s : blk) g_fifo.push_back(...)
RECURSIVE PushBackAll(_, _, _)
PushBackAll(q, src, i) ==
    IF i > Len(src) THEN q
    ELSE PushBackAll(Append(q, Normalize(src[i])), src, i + 1)

\* ScaleDen squared: the denominator of x * x
SquareDen == ScaleDen * ScaleDen

\* acc += x * x with x = s * scale.  Every x * x is s * s / 2^30 and every
\* partial sum is a multiple of 2^-30 below 2^53, so the double arithmetic is
\* exact.  acc is kept as <<whole, num>> for whole + num / 2^30, num < 2^30.
AccAdd(acc, s) ==
    LET t == acc[2] + s * s
    IN  <<acc[1] + (t \div SquareDen), t % SquareDen>>

\* for (auto s : blk) { x = s * scale; acc += x * x; }
RECURSIVE SumSquares(_, _, _)
SumSquares(src, i, acc) ==
    IF i > Len(src) THEN acc
    ELSE SumSquares(src, i + 1, AccAdd(acc, src[i]))

\* variant: a divisor one short of the block length
RmsDivisorShort(src) == Len(src) - 1

\* blk.size()
RmsDivisor(src) == Len(src)

\* std::sqrt(acc / blk.size()): the non-negative number whose square is
\* acc / n, kept as the pair of acc and n (sqrt is exact on 0 and on 1 and
\* monotone, so comparisons of rms are comparisons of acc / n)
Rms(src) == [acc |-> SumSquares(src, 1, <<0, 0>>), n |-> RmsDivisor(src)]

\* rms before the first block has been popped: nothing computed
NoRms == [acc |-> <<0, 0>>, n |-> 0]

\* the shutdown line has not been printed
NotReported == 0 - 1

\* variant: a single eviction (if for while)
BoundFifoOnce(q) == IF Len(q) > FIFO_MAX THEN Tail(q) ELSE q

\* variant: eviction at the back (pop_back for pop_front)
RECURSIVE BoundFifoBack(_)
BoundFifoBack(q) ==
    IF Len(q) > FIFO_MAX THEN BoundFifoBack(SubSeq(q, 1, Len(q) - 1)) ELSE q

\* while (g_fifo.size() > FIFO_MAX) g_fifo.pop_front();
RECURSIVE BoundFifo(_)
BoundFifo(q) == IF Len(q) > FIFO_MAX THEN BoundFifo(Tail(q)) ELSE q

\* ------------------------------------------------------------------------
\* Initial state: g_rb constructed, stream started, t0 taken, loop entered
\* ------------------------------------------------------------------------
Init ==
    /\ buf = [i \in 0..(CAP - 1) |-> ZeroBlock]
    /\ w = 0 /\ r = 0 /\ dropped = 0
    /\ ppc = "idle" /\ b = ZeroBlock /\ pwi = 0 /\ pri = 0 /\ pushRet = "none"
    /\ cpc = "pop_load_r" /\ blk = ZeroBlock /\ cri = 0 /\ cwi = 0
    /\ popRet = "none" /\ popped = 0 /\ g_fifo = <<>>
    /\ fs \in SampleRates
    /\ rms = NoRms /\ callers = <<>>
    /\ elapsed = FALSE /\ streamActive = TRUE /\ reported = NotReported
    /\ periods = 0 /\ offered = <<>> /\ accepted = <<>>
    /\ delivered = <<>> /\ appended = <<>>

\* ------------------------------------------------------------------------
\* Producer: paCallback and spscRing::push
\* ------------------------------------------------------------------------
\* variant: a skipped period is counted in dropped
PaCallbackCountsSkip(input, frames, overflow) ==
    /\ streamActive /\ ppc = "idle" /\ periods < MaxPeriods
    /\ periods' = periods + 1
    /\ IF frames # FRAMES_PER_BLOCK \/ input = NULL
       THEN /\ dropped' = dropped + 1
            /\ UNCHANGED <<buf, w, r, ppc, b, pwi, pri, pushRet, offered>>
       ELSE \* Block b; memcpy; g_rb.push(b)
            /\ b' = Memcpy(input)
            /\ ppc' = "push_load_w"
            /\ pushRet' = "none"
            /\ offered' = Append(offered, b')
            /\ UNCHANGED <<ring, pwi, pri>>
    /\ UNCHANGED <<cons, accepted, delivered, appended,
                   fs, callers, rms, elapsed, streamActive>>

\* the backend invokes the callback for one period
PaCallback(input, frames, overflow) ==
    /\ streamActive /\ ppc = "idle" /\ periods < MaxPeriods
    /\ periods' = periods + 1
    /\ IF frames # FRAMES_PER_BLOCK \/ input = NULL
       THEN \* return paContinue
            UNCHANGED <<ppc, b, pwi, pri, pushRet, offered>>
       ELSE \* Block b; memcpy; g_rb.push(b)
            /\ b' = Memcpy(input)
            /\ ppc' = "push_load_w"
            /\ pushRet' = "none"
            /\ offered' = Append(offered, b')
            /\ UNCHANGED <<pwi, pri>>
    /\ UNCHANGED <<ring, cons, accepted, delivered, appended,
                   fs, callers, rms, elapsed, streamActive>>

PushLoadW ==
    /\ ppc = "push_load_w"
    /\ pwi' = w
    /\ ppc' = "push_load_r"
    /\ UNCHANGED <<ring, b, pri, pushRet, cons, hist, fs, callers, rms, elapsed, streamActive>>

PushLoadR ==
    /\ ppc = "push_load_r"
    /\ pri' = r
    /\ ppc' = "push_check"
    /\ UNCHANGED <<ring, b, pwi, pushRet, cons, hist, fs, callers, rms, elapsed, streamActive>>

\* variant: a full ring is not counted
PushCheckNoCount ==
    /\ ppc = "push_check"
    /\ IF IsFull(pwi, pri)
       THEN /\ pushRet' = "false"
            /\ ppc' = "idle"
            /\ UNCHANGED dropped
       ELSE /\ ppc' = "push_copy"
            /\ UNCHANGED <<dropped, pushRet>>
    /\ UNCHANGED <<buf, w, r, b, pwi, pri, cons, hist, fs, callers, rms, elapsed, streamActive>>

\* variant: a full ring makes push reload the indices until there is room
PushCheckRetry ==
    /\ ppc = "push_check"
    /\ ppc' = IF IsFull(pwi, pri) THEN "push_load_w" ELSE "push_copy"
    /\ UNCHANGED <<ring, b, pwi, pri, pushRet, cons, hist, fs, callers, rms, elapsed,
                   streamActive>>

\* variant: the write index is published before the slot is written
PushCheckPublishFirst ==
    /\ ppc = "push_check"
    /\ IF IsFull(pwi, pri)
       THEN /\ dropped' = dropped + 1
            /\ pushRet' = "false"
            /\ ppc' = "idle"
            /\ UNCHANGED w
       ELSE /\ w' = pwi + 1
            /\ ppc' = "push_copy"
            /\ UNCHANGED <<dropped, pushRet>>
    /\ UNCHANGED <<buf, r, b, pwi, pri, cons, hist, fs, callers, rms, elapsed, streamActive>>

PushCheck ==
    /\ ppc = "push_check"
    /\ IF IsFull(pwi, pri)
       THEN /\ dropped' = dropped + 1
            /\ pushRet' = "false"
            /\ ppc' = "idle"
       ELSE /\ ppc' = "push_copy"
            /\ UNCHANGED <<dropped, pushRet>>
    /\ UNCHANGED <<buf, w, r, b, pwi, pri, cons, hist, fs, callers, rms, elapsed, streamActive>>

\* variant: the block is copied into the slot after the one of the write index
PushCopyNextSlot ==
    /\ ppc = "push_copy"
    /\ buf' = [buf EXCEPT ![Slot(pwi + 1)] = CopyBlock(b)]
    /\ ppc' = "push_store"
    /\ UNCHANGED <<w, r, dropped, b, pwi, pri, pushRet, cons, hist,
                   fs, callers, rms, elapsed, streamActive>>

PushCopy ==
    /\ ppc = "push_copy"
    /\ buf' = [buf EXCEPT ![Slot(pwi)] = CopyBlock(b)]
    /\ ppc' = "push_store"
    /\ UNCHANGED <<w, r, dropped, b, pwi, pri, pushRet, cons, hist,
                   fs, callers, rms, elapsed, streamActive>>

\* variant: the write index is stored back without the increment
PushStoreNoAdvance ==
    /\ ppc = "push_store"
    /\ w' = pwi
    /\ pushRet' = "true"
    /\ ppc' = "idle"
    /\ accepted' = Append(accepted, b)
    /\ UNCHANGED <<buf, r, dropped, b, pwi, pri, cons, periods, offered,
                   delivered, appended, fs, callers, rms, elapsed, streamActive>>

PushStore ==
    /\ ppc = "push_store"
    /\ w' = pwi + 1
    /\ pushRet' = "true"
    /\ ppc' = "idle"
    /\ accepted' = Append(accepted, b)
    /\ UNCHANGED <<buf, r, dropped, b, pwi, pri, cons, periods, offered,
                   delivered, appended, fs, callers, rms, elapsed, streamActive>>

Push == PushLoadW \/ PushLoadR \/ PushCheck \/ PushCopy \/ PushStore

Producer ==
    \/ \E k \in {periods + 1}, s \in {-1, 1}, frames \in FrameCounts,
          overflow \in BOOLEAN :
          \E input \in {NULL, PeriodSamples(k, s, frames)} :
              PaCallback(input, frames, overflow)
    \/ Push

\* ------------------------------------------------------------------------
\* Consumer: the loop of main and spscRing::pop
\* ------------------------------------------------------------------------
PopLoadR ==
    /\ cpc = "pop_load_r"
    /\ cri' = r
    /\ cpc' = "pop_load_w"
    /\ UNCHANGED <<ring, prod, blk, cwi, popRet, popped, g_fifo, reported,
                   hist, fs, callers, rms, elapsed, streamActive>>

PopLoadW ==
    /\ cpc = "pop_load_w"
    /\ cwi' = w
    /\ cpc' = "pop_check"
    /\ UNCHANGED <<ring, prod, blk, cri, popRet, popped, g_fifo, reported,
                   hist, fs, callers, rms, elapsed, streamActive>>

PopCheck ==
    /\ cpc = "pop_check"
    /\ IF IsEmpty(cwi, cri)
       THEN /\ popRet' = "false"
            /\ cpc' = "sleep"
       ELSE /\ cpc' = "pop_copy"
            /\ UNCHANGED popRet
    /\ UNCHANGED <<ring, prod, blk, cri, cwi, popped, g_fifo, reported,
                   hist, fs, callers, rms, elapsed, streamActive>>

PopCopy ==
    /\ cpc = "pop_copy"
    /\ blk' = CopyBlock(buf[Slot(cri)])
    /\ cpc' = "pop_store"
    /\ UNCHANGED <<ring, prod, cri, cwi, popRet, popped, g_fifo, reported,
                   hist, fs, callers, rms, elapsed, streamActive>>

\* variant: the read index is stored back without the increment
PopStoreNoAdvance ==
    /\ cpc = "pop_store"
    /\ r' = cri
    /\ popRet' = "true"
    /\ cpc' = "count"
    /\ delivered' = Append(delivered, blk)
    /\ UNCHANGED <<buf, w, dropped, prod, blk, cri, cwi, popped, g_fifo,
                   reported, periods, offered, accepted, appended,
                   fs, callers, rms, elapsed, streamActive>>

PopStore ==
    /\ cpc = "pop_store"
    /\ r' = cri + 1
    /\ popRet' = "true"
    /\ cpc' = "count"
    /\ delivered' = Append(delivered, blk)
    /\ UNCHANGED <<buf, w, dropped, prod, blk, cri, cwi, popped, g_fifo,
                   reported, periods, offered, accepted, appended,
                   fs, callers, rms, elapsed, streamActive>>

Pop == PopLoadR \/ PopLoadW \/ PopCheck \/ PopCopy \/ PopStore

\* std::this_thread::sleep_for(1 ms), then the next iteration
Sleep ==
    /\ cpc = "sleep"
    /\ cpc' = "pop_load_r"
    /\ UNCHANGED <<ring, prod, blk, cri, cwi, popRet, popped, g_fifo, reported,
                   hist, fs, callers, rms, elapsed, streamActive>>

\* ++popped
Count ==
    /\ cpc = "count"
    /\ popped' = popped + 1
    /\ rms' = Rms(blk)
    /\ cpc' = "append"
    /\ UNCHANGED <<ring, prod, blk, cri, cwi, popRet, g_fifo, reported,
                   hist, fs, callers, elapsed, streamActive>>

\* the push_back loop over the popped block
AppendHistory ==
    /\ cpc = "append"
    /\ g_fifo' = PushBackAll(g_fifo, blk, 1)
    /\ appended' = appended \o [i \in Frames |-> Normalize(blk[i])]
    /\ cpc' = "bound"
    /\ UNCHANGED <<ring, prod, blk, cri, cwi, popRet, popped, reported,
                   periods, offered, accepted, delivered,
                   fs, callers, rms, elapsed, streamActive>>

\* the pop_front loop
BoundHistory ==
    /\ cpc = "bound"
    /\ g_fifo' = BoundFifo(g_fifo)
    /\ cpc' = "timer"
    /\ UNCHANGED <<ring, prod, blk, cri, cwi, popRet, popped, reported,
                   hist, fs, callers, rms, elapsed, streamActive>>

\* now - t0 >= 5 s ? break : next iteration
TimerCheck ==
    /\ cpc = "timer"
    /\ cpc' = IF elapsed THEN "report" ELSE "pop_load_r"
    /\ UNCHANGED <<ring, prod, blk, cri, cwi, popRet, popped, g_fifo, reported,
                   hist, fs, callers, rms, elapsed, streamActive>>

\* printf("Dropped blocks ...", d) for the value d the load of dropped returns
ReportValue(d) ==
    /\ cpc = "report"
    /\ reported' = d
    /\ cpc' = "stop"
    /\ UNCHANGED <<ring, prod, blk, cri, cwi, popRet, popped, g_fifo,
                   hist, fs, callers, rms, elapsed, streamActive>>

\* printf("Dropped blocks ...", g_rb.dropped.load())
Report == ReportValue(dropped)

\* Pa_StopStream returns once no callback is running; then close, terminate
StopStream ==
    /\ cpc = "stop"
    /\ ppc = "idle"
    /\ streamActive' = FALSE
    /\ cpc' = "done"
    /\ UNCHANGED <<ring, prod, blk, cri, cwi, popRet, popped, g_fifo, reported,
                   hist, fs, callers, rms, elapsed>>

Consumer ==
    \/ Pop
    \/ Sleep
    \/ Count
    \/ AppendHistory
    \/ BoundHistory
    \/ TimerCheck
    \/ Report
    \/ StopStream

\* the steady clock passes t0 + 5 s
Tick ==
    /\ ~elapsed
    /\ elapsed' = TRUE
    /\ UNCHANGED <<ring, prod, cons, hist, fs, callers, rms, streamActive>>

Next == Producer \/ Consumer \/ Tick

Spec == Init /\ [][Next]_vars

TypeOK ==
    /\ w \in Nat /\ r \in Nat /\ dropped \in Nat
    /\ ppc \in {"idle", "push_load_w", "push_load_r", "push_check",
                "push_copy", "push_store"}
    /\ cpc \in {"pop_load_r", "pop_load_w", "pop_check", "pop_copy",
                "pop_store", "sleep", "count", "append", "bound", "timer",
                "report", "stop", "done"}
    /\ pushRet \in {"none", "true", "false"}
    /\ popRet \in {"none", "true", "false"}
    /\ periods \in 0..MaxPeriods

\* ------------------------------------------------------------------------
\* Properties of the ring under one producer and one consumer
\* ------------------------------------------------------------------------

\* C1: in every interleaving of push and pop, the blocks returned by the
\* successful pops are, in order, the first of the blocks accepted by the
\* successful pushes: none reordered, none delivered twice.
C1_PoppedIsPrefixOfPushed == IsPrefix(delivered, accepted)

\* more blocks delivered than the ring has slots, with a block dropped on the way
C1_Witness ==
    /\ Len(delivered) > CAP
    /\ dropped > 0
    /\ delivered = accepted

PushInFlight == IF ppc = "idle" THEN 0 ELSE 1

\* what the test of a push found at its call: its two index loads
FoundFull == pwi - pri >= CAP

C2_Step ==
    /\ (ppc = "push_check" /\ ppc' # ppc) =>
           IF FoundFull
           THEN /\ dropped' = dropped + 1
                /\ pushRet' = "false"
                /\ ppc' = "idle"
                /\ UNCHANGED <<w, r, buf, accepted>>
           ELSE /\ dropped' = dropped
                /\ ppc' \notin {"idle"}
    /\ ~(ppc = "push_check" /\ ppc' # ppc) => dropped' = dropped
    /\ (ppc # "idle" /\ ppc' = "idle" /\ ~FoundFull) =>
           /\ pushRet' = "true"
           /\ w' = w + 1
           /\ buf'[w % CAP] = b
           /\ accepted' = Append(accepted, b)

\* C2: dropped grows by one exactly in a push whose test found
\* writeIndex - readIndex >= CAPACITY, and in no other step; that push
\* returns false and leaves both indices and every slot as they were, every
\* other push returns true and enqueues its block; so dropped is the number
\* of pushes that returned false.
C2_DroppedCountsFullPushes ==
    /\ [](dropped = Len(offered) - PushInFlight - Len(accepted))
    /\ [][C2_Step]_vars

\* a push has just been refused, a second time, with pops in between
C2_Witness ==
    /\ ppc = "idle" /\ pushRet = "false"
    /\ dropped = 2
    /\ Len(delivered) > 0

ConsumerStep == cpc' # cpc

C3_Step ==
    /\ (cpc = "pop_load_w" /\ ConsumerStep /\ w = r) => cwi' = cri'
    /\ (cpc = "pop_check" /\ ConsumerStep /\ cwi = cri) =>
           /\ popRet' = "false"
           /\ cpc' = "sleep"
           /\ UNCHANGED <<w, r, dropped, buf>>
    /\ (cpc \in {"pop_load_r", "pop_load_w"} /\ ConsumerStep) =>
           UNCHANGED <<w, r, dropped, buf>>

\* C3: a pop that meets an empty ring (writeIndex = readIndex) returns false
\* and changes neither index, nor dropped, nor any slot.
C3_PopOnEmptyChangesNothing == [][C3_Step]_vars

\* a pop has returned false on a ring that had carried blocks before
C3_Witness ==
    /\ cpc = "sleep" /\ popRet = "false"
    /\ w = r /\ r > 0

Occupancy == Len(accepted) - Len(delivered)

\* C4: the write index never falls behind the read index nor runs more than
\* CAPACITY ahead; the ring holds no undelivered block exactly when the
\* indices are equal and CAPACITY of them exactly when they differ by CAPACITY.
C4_IndexInvariant ==
    /\ w >= r
    /\ w - r <= CAP
    /\ (Occupancy = 0) <=> (w = r)
    /\ (Occupancy = CAP) <=> (w - r = CAP)

\* the ring is full after the slots have been reused
C4_Witness == w - r = CAP /\ r > 0

\* steps a push has left before it returns
PushRank(pc) ==
    CASE pc = "idle" -> 0
      [] pc = "push_store" -> 1
      [] pc = "push_copy" -> 2
      [] pc = "push_check" -> 3
      [] pc = "push_load_r" -> 4
      [] pc = "push_load_w" -> 5

\* C5: a push that has been called can always take its next step, whatever
\* the consumer is doing and however full the ring is, and every step of it
\* brings it nearer to its return: it returns within five steps of its own.
C5_PushNeverBlocks ==
    /\ [](ppc # "idle" => ENABLED Push)
    /\ [][(ppc # "idle" /\ ppc' # ppc) => PushRank(ppc') < PushRank(ppc)]_vars

\* a push is at its test on a full ring while the consumer sleeps or has
\* left its loop
C5_Witness ==
    /\ ppc = "push_check" /\ IsFull(pwi, pri)
    /\ w - r = CAP
    /\ cpc \in {"sleep", "stop"}

\* C6: the block a pop hands out is, sample for sample, the block that was
\* given to the push that enqueued it.
C6_RoundTrip ==
    cpc = "count" =>
        /\ r \in 1..Len(accepted)
        /\ DOMAIN blk = Frames
        /\ \A i \in Frames : blk[i] = accepted[r][i]

\* a block has come out of a slot that was used before, with a later push
\* already accepted behind it
C6_Witness ==
    /\ cpc = "count"
    /\ r > CAP
    /\ Len(accepted) > r
    /\ blk = accepted[r]

\* ------------------------------------------------------------------------
\* The callback's handling of a period
\* ------------------------------------------------------------------------
Malformed(input, frames) == frames # FRAMES_PER_BLOCK \/ input = NULL

\* the periods the backend may deliver as number k: <<input, frames>>
Deliveries(k) ==
    {<<NULL, frames>> : frames \in FrameCounts}
    \cup {<<PeriodSamples(k, s, frames), frames>> :
              s \in {-1, 1}, frames \in FrameCounts}

C11_Step ==
    periods' # periods =>
        \A d \in {x \in Deliveries(periods + 1) : Malformed(x[1], x[2])} :
            (\E overflow \in BOOLEAN : PaCallback(d[1], d[2], overflow)) =>
                /\ ppc' = "idle" /\ streamActive'
                /\ UNCHANGED <<w, r, dropped, buf>>
                /\ UNCHANGED <<prod, cons, rms, offered, accepted, delivered>>

\* C11: a period with a frame count other than the block length, or with a
\* null input, is skipped: the callback returns to the backend, the stream
\* goes on, and neither index, nor dropped, nor any slot, nor anything else
\* the two threads hold has changed.
C11_MalformedPeriodSkipped == [][C11_Step]_vars

\* a period has been skipped while the ring held blocks and had dropped some
C11_Witness ==
    /\ ppc = "idle"
    /\ periods > Len(offered)
    /\ w > r /\ dropped > 0

C12_Step ==
    periods' # periods =>
        \A d \in {x \in Deliveries(periods + 1) : ~Malformed(x[1], x[2])} :
            PaCallback(d[1], d[2], TRUE) =>
                /\ ~PaCallback(d[1], d[2], FALSE)
                /\ b' = d[1]
                /\ ppc' = "push_load_w"

\* C12: a well-formed period delivered with the overflow flag leaves a trace
\* of the flag (the state after the callback differs from the state the same
\* period leaves without the flag) and is copied and pushed all the same.
C12_OverflowRecordedAndForwarded == [][C12_Step]_vars

\* ------------------------------------------------------------------------
\* Who writes what
\* ------------------------------------------------------------------------
\* a step of the callback (a skipped period changes the period count only)
ProducerStep == ppc' # ppc \/ periods' # periods

\* producer steps leave the read index, the history and every local of the
\* consumer alone and write no slot but the one at writeIndex mod CAPACITY;
\* consumer steps leave the write index, every slot, dropped and every local
\* of the producer alone
C14_Frames ==
    /\ ProducerStep =>
           /\ UNCHANGED <<r, g_fifo, cpc, blk, cri, cwi, popRet, popped, rms,
                          reported>>
           /\ \A i \in DOMAIN buf : i # w % CAP => buf'[i] = buf[i]
    /\ ConsumerStep =>
           UNCHANGED <<w, buf, dropped, ppc, b, pwi, pri, pushRet>>

\* C14 as stated: the frames above, and no field but the slots and the two
\* indices goes from one side to the other: in particular the consumer's
\* steps would be the same whatever the producer has left in dropped.
C14_OnlySlotsAndIndicesShared ==
    [][C14_Frames /\ (Report => \A d \in 0..MaxPeriods : ReportValue(d))]_vars

\* C14, amended: the frames above; dropped is shared as well: written by
\* the producer only, and read by the consumer in its shutdown report, which
\* prints the value the producer has left there.
C14_MutationRightsPartitioned ==
    [][C14_Frames /\ (Report => (reported' = dropped /\ dropped' = dropped))]_vars

\* the consumer has read a count the producer has written, after blocks
\* have gone through the ring
C14_Witness ==
    /\ cpc = "stop"
    /\ reported = dropped /\ dropped > 0
    /\ r > 0

\* ------------------------------------------------------------------------
\* The end of the session
\* ------------------------------------------------------------------------
\* The main thread keeps running and the clock keeps going; the backend owes
\* no period (it may stall or stop delivering at any time).
FairSpec == Spec /\ WF_vars(Consumer) /\ WF_vars(Tick)

LoopLeft == cpc \in {"report", "stop", "done"}

\* C13: once the session time has elapsed the consumer leaves its loop,
\* whatever the producer does, also when every later pop finds the ring empty.
C13_LoopExitsAfterSession == elapsed ~> LoopLeft

\* C15: production has stopped before the consumer reads dropped for its
\* report, so the count it has printed is the session's final count of
\* dropped blocks.
C15_ReportIsFinalCount == cpc = "done" => reported = dropped

\* ------------------------------------------------------------------------
\* push and pop with two callers each: the same steps as PushLoadW ..
\* PushStore and PopLoadR .. PopStore, with the locals of caller c kept in
\* callers[c]
\* ------------------------------------------------------------------------
\* number of push calls in a run with several callers
MaxCalls == 2

Pushers == {"p1", "p2"}

Poppers == {"c1", "c2"}

IdleCaller == [pc |-> "idle", wi |-> 0, ri |-> 0, blk |-> ZeroBlock, ret |-> "none"]

MultiInit ==
    /\ buf = [i \in 0..(CAP - 1) |-> ZeroBlock]
    /\ w = 0 /\ r = 0 /\ dropped = 0
    /\ ppc = "idle" /\ b = ZeroBlock /\ pwi = 0 /\ pri = 0 /\ pushRet = "none"
    /\ cpc = "pop_load_r" /\ blk = ZeroBlock /\ cri = 0 /\ cwi = 0
    /\ popRet = "none" /\ popped = 0 /\ g_fifo = <<>>
    /\ fs = NominalRate /\ rms = NoRms
    /\ elapsed = FALSE /\ streamActive = TRUE /\ reported = NotReported
    /\ periods = 0 /\ offered = <<>> /\ accepted = <<>>
    /\ delivered = <<>> /\ appended = <<>>
    /\ callers = [c \in Pushers \cup Poppers |-> IdleCaller]

\* what the steps of the additional callers leave alone
single == <<prod, cons, fs, rms, elapsed, streamActive, appended>>

\* caller p calls push(blk) with the next block
MPushCall(p) ==
    /\ callers[p].pc = "idle" /\ periods < MaxCalls
    /\ periods' = periods + 1
    /\ LET blk0 == PeriodSamples(periods + 1, 1, FRAMES_PER_BLOCK)
       IN  /\ callers' = [callers EXCEPT ![p].pc = "push_load_w",
                                         ![p].blk = blk0, ![p].ret = "none"]
           /\ offered' = Append(offered, blk0)
    /\ UNCHANGED <<ring, single, accepted, delivered>>

MPushLoadW(p) ==
    /\ callers[p].pc = "push_load_w"
    /\ callers' = [callers EXCEPT ![p].wi = w, ![p].pc = "push_load_r"]
    /\ UNCHANGED <<ring, single, periods, offered, accepted, delivered>>

MPushLoadR(p) ==
    /\ callers[p].pc = "push_load_r"
    /\ callers' = [callers EXCEPT ![p].ri = r, ![p].pc = "push_check"]
    /\ UNCHANGED <<ring, single, periods, offered, accepted, delivered>>

MPushCheck(p) ==
    /\ callers[p].pc = "push_check"
    /\ IF IsFull(callers[p].wi, callers[p].ri)
       THEN /\ dropped' = dropped + 1
            /\ callers' = [callers EXCEPT ![p].ret = "false", ![p].pc = "idle"]
       ELSE /\ callers' = [callers EXCEPT ![p].pc = "push_copy"]
            /\ UNCHANGED dropped
    /\ UNCHANGED <<buf, w, r, single, periods, offered, accepted, delivered>>

MPushCopy(p) ==
    /\ callers[p].pc = "push_copy"
    /\ buf' = [buf EXCEPT ![Slot(callers[p].wi)] = CopyBlock(callers[p].blk)]
    /\ callers' = [callers EXCEPT ![p].pc = "push_store"]
    /\ UNCHANGED <<w, r, dropped, single, periods, offered, accepted, delivered>>

\* variant: the write index is advanced from its current value (a fetch_add)
MPushStoreAdd(p) ==
    /\ callers[p].pc = "push_store"
    /\ w' = w + 1
    /\ callers' = [callers EXCEPT ![p].ret = "true", ![p].pc = "idle"]
    /\ accepted' = Append(accepted, callers[p].blk)
    /\ UNCHANGED <<buf, r, dropped, single, periods, offered, delivered>>

MPushStore(p) ==
    /\ callers[p].pc = "push_store"
    /\ w' = callers[p].wi + 1
    /\ callers' = [callers EXCEPT ![p].ret = "true", ![p].pc = "idle"]
    /\ accepted' = Append(accepted, callers[p].blk)
    /\ UNCHANGED <<buf, r, dropped, single, periods, offered, delivered>>

\* caller c calls pop(out); with the write index set back by a second
\* pusher pops can succeed without end, so the calls are bounded
MPopCall(c) ==
    /\ callers[c].pc = "idle" /\ Len(delivered) < MaxCalls
    /\ callers' = [callers EXCEPT ![c].pc = "pop_load_r", ![c].ret = "none"]
    /\ UNCHANGED <<ring, single, periods, offered, accepted, delivered>>

MPopLoadR(c) ==
    /\ callers[c].pc = "pop_load_r"
    /\ callers' = [callers EXCEPT ![c].ri = r, ![c].pc = "pop_load_w"]
    /\ UNCHANGED <<ring, single, periods, offered, accepted, delivered>>

MPopLoadW(c) ==
    /\ callers[c].pc = "pop_load_w"
    /\ callers' = [callers EXCEPT ![c].wi = w, ![c].pc = "pop_check"]
    /\ UNCHANGED <<ring, single, periods, offered, accepted, delivered>>

MPopCheck(c) ==
    /\ callers[c].pc = "pop_check"
    /\ IF IsEmpty(callers[c].wi, callers[c].ri)
       THEN callers' = [callers EXCEPT ![c].ret = "false", ![c].pc = "idle"]
       ELSE callers' = [callers EXCEPT ![c].pc = "pop_copy"]
    /\ UNCHANGED <<ring, single, periods, offered, accepted, delivered>>

MPopCopy(c) ==
    /\ callers[c].pc = "pop_copy"
    /\ callers' = [callers EXCEPT ![c].blk = CopyBlock(buf[Slot(callers[c].ri)]),
                                  ![c].pc = "pop_store"]
    /\ UNCHANGED <<ring, single, periods, offered, accepted, delivered>>

MPopStore(c) ==
    /\ callers[c].pc = "pop_store"
    /\ r' = callers[c].ri + 1
    /\ callers' = [callers EXCEPT ![c].ret = "true", ![c].pc = "idle"]
    /\ delivered' = Append(delivered, callers[c].blk)
    /\ UNCHANGED <<buf, w, dropped, single, periods, offered, accepted>>

MultiNext ==
    \/ \E p \in Pushers :
          \/ MPushCall(p)
          \/ MPushLoadW(p)
          \/ MPushLoadR(p)
          \/ MPushCheck(p)
          \/ MPushCopy(p)
          \/ MPushStore(p)
    \/ \E c \in Poppers :
          \/ MPopCall(c)
          \/ MPopLoadR(c)
          \/ MPopLoadW(c)
          \/ MPopCheck(c)
          \/ MPopCopy(c)
          \/ MPopStore(c)

TwoCallers == MultiInit /\ [][MultiNext]_vars

\* the latest calls of x and y have both returned true after loading the
\* same value of the index they advance
BothSucceededFrom(x, y, idx) ==
    /\ x # y
    /\ callers[x].pc = "idle" /\ callers[x].ret = "true"
    /\ callers[y].pc = "idle" /\ callers[y].ret = "true"
    /\ idx[x] = idx[y]

LoadedW == [c \in DOMAIN callers |-> callers[c].wi]

LoadedR == [c \in DOMAIN callers |-> callers[c].ri]

\* C16: with two callers of push, two pushes that loaded the same write
\* index both return true, write the same slot and leave writeIndex
\* advanced by one, so that one of the two blocks reported as enqueued is
\* overwritten and the index counts fewer blocks than were accepted;
\* with two callers of pop, two pops that loaded the same read index both
\* return true and leave readIndex advanced by one for two deliveries.
C16_TwoCallersLoseBlocks ==
    /\ \A p \in Pushers, q \in Pushers :
           BothSucceededFrom(p, q, LoadedW) =>
               /\ w = callers[p].wi + 1
               /\ w < Len(accepted)
               /\ callers[p].blk # callers[q].blk
               /\ buf[Slot(callers[p].wi)] \in {callers[p].blk, callers[q].blk}
    /\ \A c \in Poppers, d \in Poppers :
           BothSucceededFrom(c, d, LoadedR) =>
               /\ r = callers[c].ri + 1
               /\ r < Len(delivered)
    /\ w <= Len(accepted)
    /\ r <= Len(delivered)

\* two pushes have returned true for one slot, and two pops have handed out
\* the same block
C16_Witness ==
    /\ BothSucceededFrom("p1", "p2", LoadedW)
    /\ BothSucceededFrom("c1", "c2", LoadedR)
    /\ callers["c1"].blk = callers["c2"].blk
    /\ callers["c1"].blk \in {callers["p1"].blk, callers["p2"].blk}

\* ------------------------------------------------------------------------
\* The level of one block: the consumer has popped a block of int16 samples
\* and computes its RMS
\* ------------------------------------------------------------------------

\* int16_t: the least and the greatest sample
SampleMin == 0 - ScaleDen

SampleMax == ScaleDen - 1

\* the samples the blocks are drawn from: both full-scale values, zero and
\* the least magnitudes
RmsSamples == {SampleMin, 0 - 1, 0, 1, SampleMax}

ConstantBlock(s) == [i \in Frames |-> s]

\* the consumer has popped the first block accepted and is about to count it
RmsInit ==
    /\ blk \in [Frames -> RmsSamples]
    /\ buf = [i \in 0..(CAP - 1) |-> IF i = 0 THEN blk ELSE ZeroBlock]
    /\ w = 1 /\ r = 1 /\ dropped = 0
    /\ ppc = "idle" /\ b = blk /\ pwi = 0 /\ pri = 0 /\ pushRet = "true"
    /\ cpc = "count" /\ cri = 0 /\ cwi = 1
    /\ popRet = "true" /\ popped = 0 /\ g_fifo = <<>>
    /\ fs = NominalRate
    /\ rms = NoRms /\ callers = <<>>
    /\ elapsed = FALSE /\ streamActive = TRUE /\ reported = NotReported
    /\ periods = 1 /\ offered = <<blk>> /\ accepted = <<blk>>
    /\ delivered = <<blk>> /\ appended = <<>>

RmsNext == Count

RmsSpec == RmsInit /\ [][RmsNext]_vars

\* rms == 0.0
RmsIsZero(v) == v.n > 0 /\ v.acc = <<0, 0>>

\* rms == 1.0
RmsIsOne(v) == v.n > 0 /\ v.acc = <<v.n, 0>>

\* 1.0 - rms <= 1 / den and rms <= 1.0, for den a multiple of ScaleDen:
\* rms >= 1 - 1/den  iff  acc / n >= 1 - (2 * den - 1) / den^2, that is the
\* mean square falls short of 1 by at most (2 * den - 1) / (den / ScaleDen)^2
\* units of 2^-30
RmsWithinOfOne(v, den) ==
    LET q == den \div ScaleDen
        allowed == (2 * den - 1) \div (q * q)
    IN  \/ RmsIsOne(v)
        \/ /\ v.n > 0
           /\ v.acc[1] = v.n - 1
           /\ SquareDen - v.acc[2] <= v.n * allowed

\* the fraction bits of float, the narrower of the two floating-point types
\* of the loop: 1 / 2^FloatFractionBits is its rounding unit at 1.0
FloatFractionBits == 23

FloatEpsilonDen == 2 ^ FloatFractionBits

\* the RMS of the block in blk has been computed
RmsComputed == cpc = "append"

\* C17 as stated: the RMS of a block is exactly 0.0 for all-zero samples and
\* within floating-point tolerance (a rounding unit) of 1.0 for a block of
\* constant 32767 and for a block of constant -32768.
C17_FullScaleWithinRounding ==
    RmsComputed =>
        /\ rms.n = Len(blk)
        /\ (blk = ZeroBlock => RmsIsZero(rms))
        /\ (blk = ConstantBlock(SampleMin) => RmsWithinOfOne(rms, FloatEpsilonDen))
        /\ (blk = ConstantBlock(SampleMax) => RmsWithinOfOne(rms, FloatEpsilonDen))

\* C17: the RMS of a block, with the block's length as divisor, is exactly
\* 0.0 for all-zero samples, exactly 1.0 for constant -32768, and for
\* constant 32767 it is 32767/32768: below 1.0 by 1/32768 and by no less.
C17_RmsOfZeroAndFullScale ==
    RmsComputed =>
        /\ rms.n = Len(blk)
        /\ (blk = ZeroBlock => RmsIsZero(rms))
        /\ (blk = ConstantBlock(SampleMin) => RmsIsOne(rms))
        /\ (blk = ConstantBlock(SampleMax) =>
               /\ RmsWithinOfOne(rms, ScaleDen)
               /\ ~RmsWithinOfOne(rms, 2 * ScaleDen))

\* the RMS of a block of constant 32767 has been computed
C17_Witness ==
    /\ RmsComputed
    /\ blk = ConstantBlock(SampleMax)
    /\ popped = 1
    /\ rms = Rms(blk)

\* ------------------------------------------------------------------------
\* Ownership of a slot
\* ------------------------------------------------------------------------

\* the producer is between the fullness test and the return of push: it
\* holds the slot at its write index
ProducerHoldsSlot == ppc \in {"push_copy", "push_store"}

\* the consumer is between the emptiness test and the return of pop: it
\* holds the slot at its read index
ConsumerHoldsSlot == cpc \in {"pop_copy", "pop_store"}

\* C18: a slot changes hands only when an index is published.  While the
\* producer holds a slot writeIndex has not moved past it, and writeIndex + 1
\* is stored only with the block already in the slot; while the consumer
\* holds a slot readIndex has not moved past it, the slot lies below
\* writeIndex and holds, complete, the block accepted at that index, and
\* readIndex + 1 is stored only with that block already copied out; the two
\* never copy into and out of the same slot at once.
C18_SlotOwnership ==
    /\ ProducerHoldsSlot => w = pwi
    /\ ppc = "push_store" => buf[Slot(pwi)] = b
    /\ ConsumerHoldsSlot =>
           /\ r = cri
           /\ cri < w
           /\ cri < Len(accepted)
           /\ buf[Slot(cri)] = accepted[cri + 1]
    /\ cpc = "pop_store" => blk = accepted[cri + 1]
    /\ ~(ppc = "push_copy" /\ cpc = "pop_copy" /\ Slot(pwi) = Slot(cri))

\* both threads are copying at once, the producer into a slot it has used
\* before
C18_Witness ==
    /\ ppc = "push_copy"
    /\ cpc = "pop_copy"
    /\ pwi >= CAP
    /\ Slot(pwi) # Slot(cri)

\* ------------------------------------------------------------------------
\* Conservation of blocks
\* ------------------------------------------------------------------------

\* the well-formed periods whose callback has returned
HandledPeriods == Len(offered) - PushInFlight

\* the pops that have returned true
SuccessfulPops == Len(delivered)

\* C19: the well-formed periods the callback has finished handling number
\* writeIndex + dropped, the successful pops number readIndex (and popped,
\* once the loop has counted the last one), the blocks accepted and not yet
\* delivered number writeIndex - readIndex, and each of them is still in its
\* slot; the blocks delivered are the first of those accepted.
C19_Conservation ==
    /\ HandledPeriods = w + dropped
    /\ SuccessfulPops = r
    /\ popped = (IF cpc = "count" THEN r - 1 ELSE r)
    /\ Occupancy = w - r
    /\ Len(accepted) = w
    /\ \A i \in (r + 1)..w : buf[Slot(i - 1)] = accepted[i]
    /\ IsPrefix(delivered, accepted)

\* periods have been skipped, refused, accepted and delivered, and a block
\* is waiting in the ring
C19_Witness ==
    /\ ppc = "idle"
    /\ periods > Len(offered)
    /\ dropped > 0
    /\ popped > 0
    /\ w > r
    /\ Len(offered) = w + dropped

\* ------------------------------------------------------------------------
\* Index wraparound: the ring with writeIndex and readIndex as unsigned
\* counters of IndexBits bits, for every capacity from 2 up to the modulus
\* ------------------------------------------------------------------------

\* the width of the index counters (64 in the program, scaled down)
IndexBits == 2

\* size_t arithmetic is modulo 2^IndexBits
Modulus == 2 ^ IndexBits

Wrap(i) == i % Modulus

\* the capacities the ring is built with: some divide the modulus, some not
Capacities == 2..(Modulus - 1)

\* buf.size(): the number of slots of the ring
Capacity == Cardinality(DOMAIN buf)

\* periods delivered: enough to wrap the write index and to fill the ring
\* across the wraparound
WrapCalls == Modulus + 3

\* variant: the difference of the indices as a signed number
WIsFullSigned(wi, ri) == wi - ri >= Capacity

\* wi - ri >= CAP on unsigned counters
WIsFull(wi, ri) == Wrap(wi - ri) >= Capacity

\* i % CAP
WSlot(i) == i % Capacity

WrapInit ==
    /\ buf \in {[i \in 0..(c - 1) |-> ZeroBlock] : c \in Capacities}
    /\ w = 0 /\ r = 0 /\ dropped = 0
    /\ ppc = "idle" /\ b = ZeroBlock /\ pwi = 0 /\ pri = 0 /\ pushRet = "none"
    /\ cpc = "pop_load_r" /\ blk = ZeroBlock /\ cri = 0 /\ cwi = 0
    /\ popRet = "none" /\ popped = 0 /\ g_fifo = <<>>
    /\ fs = NominalRate /\ rms = NoRms /\ callers = <<>>
    /\ elapsed = FALSE /\ streamActive = TRUE /\ reported = NotReported
    /\ periods = 0 /\ offered = <<>> /\ accepted = <<>>
    /\ delivered = <<>> /\ appended = <<>>

\* the backend invokes the callback for one well-formed period
WCallback ==
    /\ streamActive /\ ppc = "idle" /\ periods < WrapCalls
    /\ periods' = periods + 1
    /\ b' = Memcpy(PeriodSamples(periods + 1, 1, FRAMES_PER_BLOCK))
    /\ ppc' = "push_load_w"
    /\ pushRet' = "none"
    /\ offered' = Append(offered, b')
    /\ UNCHANGED <<ring, pwi, pri, cons, accepted, delivered, appended,
                   fs, callers, rms, elapsed, streamActive>>

WPushCheck ==
    /\ ppc = "push_check"
    /\ IF WIsFull(pwi, pri)
       THEN /\ dropped' = Wrap(dropped + 1)
            /\ pushRet' = "false"
            /\ ppc' = "idle"
       ELSE /\ ppc' = "push_copy"
            /\ UNCHANGED <<dropped, pushRet>>
    /\ UNCHANGED <<buf, w, r, b, pwi, pri, cons, hist, fs, callers, rms, elapsed, streamActive>>

WPushCopy ==
    /\ ppc = "push_copy"
    /\ buf' = [buf EXCEPT ![WSlot(pwi)] = CopyBlock(b)]
    /\ ppc' = "push_store"
    /\ UNCHANGED <<w, r, dropped, b, pwi, pri, pushRet, cons, hist,
                   fs, callers, rms, elapsed, streamActive>>

WPushStore ==
    /\ ppc = "push_store"
    /\ w' = Wrap(pwi + 1)
    /\ pushRet' = "true"
    /\ ppc' = "idle"
    /\ accepted' = Append(accepted, b)
    /\ UNCHANGED <<buf, r, dropped, b, pwi, pri, cons, periods, offered,
                   delivered, appended, fs, callers, rms, elapsed, streamActive>>

WPopCopy ==
    /\ cpc = "pop_copy"
    /\ blk' = CopyBlock(buf[WSlot(cri)])
    /\ cpc' = "pop_store"
    /\ UNCHANGED <<ring, prod, cri, cwi, popRet, popped, g_fifo, reported,
                   hist, fs, callers, rms, elapsed, streamActive>>

\* the store of the read index and the return to the loop, which pops again
WPopStore ==
    /\ cpc = "pop_store"
    /\ r' = Wrap(cri + 1)
    /\ popRet' = "true"
    /\ cpc' = "pop_load_r"
    /\ delivered' = Append(delivered, blk)
    /\ UNCHANGED <<buf, w, dropped, prod, blk, cri, cwi, popped, g_fifo,
                   reported, periods, offered, accepted, appended,
                   fs, callers, rms, elapsed, streamActive>>

WrapNext ==
    \/ WCallback
    \/ PushLoadW
    \/ PushLoadR
    \/ WPushCheck
    \/ WPushCopy
    \/ WPushStore
    \/ PopLoadR
    \/ PopLoadW
    \/ PopCheck
    \/ Sleep
    \/ WPopCopy
    \/ WPopStore

WrapSpec == WrapInit /\ [][WrapNext]_vars

\* the capacity divides 2^IndexBits
Divides == Modulus % Capacity = 0

\* what is left of the modulus after whole rounds of the slots
Residue == Modulus % Capacity

\* the write index has been stored Modulus times: it has wrapped
Wrapped == Len(accepted) >= Modulus

\* the places, in the order of acceptance, of the blocks not yet popped
Unread == (Len(delivered) + 1)..Len(accepted)

\* the slot the block accepted in place p was written to
PlaceSlot(p) == WSlot(Wrap(p - 1))

\* the producer is about to copy into a slot that holds an unread block
TargetsUnread ==
    /\ ppc = "push_copy"
    /\ \E p \in Unread : PlaceSlot(p) = WSlot(pwi)

\* FIFO order, the occupancy bound and intact unread slots
WrapSafe ==
    /\ IsPrefix(delivered, accepted)
    /\ Occupancy <= Capacity
    /\ Wrap(w - r) = Occupancy
    /\ ~TargetsUnread
    /\ \A p \in Unread : buf[PlaceSlot(p)] = accepted[p]

\* C20: with index counters that wrap modulo 2^IndexBits, a ring whose
\* capacity divides 2^IndexBits keeps FIFO order, the occupancy bound and
\* every unread slot intact before and after the wraparound.  A ring whose
\* capacity does not divide it does so until the write index wraps; a push
\* at an index below 2^IndexBits mod CAPACITY after the wraparound then
\* targets a slot that is still unread, which it does exactly when that many
\* blocks are unread.
C20_WraparoundKeepsFifo ==
    /\ Divides => WrapSafe
    /\ ~Divides =>
           /\ ~Wrapped => WrapSafe
           /\ (/\ ppc = "push_copy"
               /\ Len(accepted) = Modulus + pwi
               /\ pwi < Residue) => (TargetsUnread <=> Occupancy >= Residue)

\* a capacity that divides the modulus: a push has been refused with the
\* ring full across the wraparound, after blocks were delivered in order
C20_Witness ==
    /\ Divides
    /\ w < r
    /\ Wrap(w - r) = Capacity
    /\ ppc = "idle" /\ pushRet = "false"
    /\ Len(delivered) > 0

\* a capacity that does not divide the modulus: after the wraparound a push
\* is about to overwrite an unread block
OverwritesUnread ==
    /\ ~Divides
    /\ Wrapped
    /\ TargetsUnread

\* ------------------------------------------------------------------------
\* The overflow scenario: CAP + 1 well-formed periods while the consumer has
\* not started, then the consumer loop alone
\* ------------------------------------------------------------------------
ScenarioProduce ==
    /\ periods < CAP + 1
    /\ \E s \in {-1, 1}, overflow \in BOOLEAN :
           PaCallback(PeriodSamples(periods + 1, s, FRAMES_PER_BLOCK),
                      FRAMES_PER_BLOCK, overflow)

ScenarioConsume ==
    /\ periods = CAP + 1 /\ ppc = "idle"
    /\ (Pop \/ Sleep \/ Count \/ AppendHistory \/ BoundHistory \/ TimerCheck)

ScenarioNext == ScenarioProduce \/ Push \/ ScenarioConsume

Scenario == Init /\ [][ScenarioNext]_vars

\* C7: of CAP + 1 pushes into the empty ring with no pop in between, the
\* first CAP return true and the last returns false with dropped = 1; the
\* pops that follow return the first CAP blocks in push order, the pop after
\* them returns false, and the refused block is never handed out.
C7_OverflowScenario ==
    /\ (ppc = "idle" /\ periods \in 1..CAP) =>
           (pushRet = "true" /\ w = periods /\ dropped = 0)
    /\ (ppc = "idle" /\ periods = CAP + 1) =>
           (pushRet = "false" /\ w = CAP /\ dropped = 1)
    /\ Len(delivered) <= CAP
    /\ delivered = SubSeq(offered, 1, Len(delivered))
    /\ popRet = "false" => (Len(delivered) = CAP /\ r = CAP)
    /\ cpc = "sleep" => (popRet = "false" /\ popped = CAP)

\* the pop after the CAP-th has just returned false
C7_Witness ==
    /\ cpc = "sleep" /\ popRet = "false"
    /\ Len(offered) = CAP + 1 /\ dropped = 1
    /\ delivered = SubSeq(offered, 1, CAP)

\* ------------------------------------------------------------------------
\* The history deque
\* ------------------------------------------------------------------------
\* the consumer is between two iterations' history updates: not between the
\* push_back loop and the pop_front loop of one iteration
HistorySettled == cpc # "bound"

\* C8: after every append-and-evict of the consumer, the history holds no
\* more than its capacity, and exactly min(capacity, samples appended so far).
C8_HistoryOccupancy ==
    HistorySettled =>
        /\ Len(g_fifo) <= FIFO_MAX
        /\ Len(g_fifo) = Min(FIFO_MAX, Len(appended))

\* more samples have been appended than the history holds, and evicted
C8_Witness ==
    /\ cpc = "timer"
    /\ Len(appended) > FIFO_MAX
    /\ Len(g_fifo) = FIFO_MAX

\* C9: the history holds exactly the last min(capacity, T) of the T samples
\* appended, in the order they were appended.
C9_HistoryKeepsLatest ==
    HistorySettled =>
        g_fifo = LastN(appended, Min(FIFO_MAX, Len(appended)))

\* samples have been evicted and the oldest one kept is not the first appended
C9_Witness ==
    /\ cpc = "timer"
    /\ Len(appended) > FIFO_MAX
    /\ g_fifo # <<>>
    /\ g_fifo[1] # appended[1]
    /\ g_fifo[Len(g_fifo)] = appended[Len(appended)]

\* double ms = (g_fifo.size() / fs) * 1000.0, compared against a bound in ms
\* without the division
DepthExceedsMs(limit) == Len(g_fifo) * 1000 > limit * fs

\* C10: for every sample rate the session runs at, the history never holds
\* more than fs * maxSeconds samples: the reported depth never exceeds
\* maxSeconds * 1000 ms.
C10_HistoryWithinSessionRate ==
    HistorySettled =>
        /\ Len(g_fifo) <= fs * MaxSeconds
        /\ ~DepthExceedsMs(MaxSeconds * 1000)
====
